---- MODULE Spec2Model ----
(***************************************************************************)
(* Model of app.py: the start-up pipeline of the crowd dashboard.          *)
(*   fetch (one blocking GET)  ->  shape (first three sensors)  ->         *)
(*   build one section per sensor  ->  assign app.layout  ->  run_server   *)
(* Strings are sequences of one-character strings, so that int() and       *)
(* str.split are computed as Python computes them.  A float with one       *)
(* decimal digit (the result of x / 10) is held in tenths.                 *)
(***************************************************************************)
EXTENDS Integers, Sequences, FiniteSets, TLC

VARIABLES pc, getCount, response, data, sensors_data, selected_sensors,
          idx, processed_data, sections, layout, port, views, lastPage,
          failure

vars == <<pc, getCount, response, data, sensors_data, selected_sensors,
          idx, processed_data, sections, layout, port, views, lastPage,
          failure>>

(* ------------------------------ bounds --------------------------------- *)
\* longest SensorList the API answers with
MaxSensors == 4
\* most entries of one SensorList that are not well-formed
MaxBad == 1
\* page views after the server has started
MaxViews == 2
\* SensorPercentage ranges over -PctSlack .. 100 + PctSlack in SpecSection
PctSlack == 3
\* ServeTimeFrames ranges over 0 .. MaxServe in SpecSection
MaxServe == 21

(* ------------------------------ strings -------------------------------- *)
Digits == <<"0", "1", "2", "3", "4", "5", "6", "7", "8", "9">>

IsDigit(c) == \E d \in 1..10 : Digits[d] = c

DigitVal(c) == (CHOOSE d \in 1..10 : Digits[d] = c) - 1

\* str.strip() for the blank character
RECURSIVE LStrip(_)
LStrip(s) == IF s # <<>> /\ Head(s) = " " THEN LStrip(Tail(s)) ELSE s

RECURSIVE RStrip(_)
RStrip(s) ==
    IF s # <<>> /\ s[Len(s)] = " " THEN RStrip(SubSeq(s, 1, Len(s) - 1)) ELSE s

Strip(s) == RStrip(LStrip(s))

RECURSIVE DecValue(_)
DecValue(s) ==
    IF s = <<>> THEN 0
    ELSE 10 * DecValue(SubSeq(s, 1, Len(s) - 1)) + DigitVal(s[Len(s)])

AllDigits(s) == s # <<>> /\ \A i \in 1..Len(s) : IsDigit(s[i])

\* the literals int(str) accepts: blanks, an optional sign, decimal digits
IsIntLiteral(s) ==
    LET t == Strip(s)
    IN  /\ t # <<>>
        /\ IF Head(t) \in {"-", "+"} THEN AllDigits(Tail(t)) ELSE AllDigits(t)

IntOfLiteral(s) ==
    LET t == Strip(s)
    IN  IF Head(t) = "-" THEN 0 - DecValue(Tail(t))
        ELSE IF Head(t) = "+" THEN DecValue(Tail(t))
        ELSE DecValue(t)

\* position of the first sep in s, 0 when there is none
RECURSIVE FindFrom(_, _, _)
FindFrom(s, sep, i) ==
    IF i > Len(s) THEN 0
    ELSE IF s[i] = sep THEN i
    ELSE FindFrom(s, sep, i + 1)

\* str.split(sep) for a one-character separator: every piece between seps
RECURSIVE Split(_, _)
Split(s, sep) ==
    LET p == FindFrom(s, sep, 1)
    IN  IF p = 0 THEN <<s>>
        ELSE <<SubSeq(s, 1, p - 1)>> \o Split(SubSeq(s, p + 1, Len(s)), sep)

(* --------------------------- JSON values ------------------------------- *)
\* k: "int" (n), "float" (n tenths), "bool" (n in 0..1), "str" (s),
\*    "null", "missing" (the key is not in the object)
IntV(n) == [k |-> "int", n |-> n, s |-> <<>>]
FloatV(tenths) == [k |-> "float", n |-> tenths, s |-> <<>>]
BoolV(b) == [k |-> "bool", n |-> IF b THEN 1 ELSE 0, s |-> <<>>]
StrV(s) == [k |-> "str", n |-> 0, s |-> s]
NullV == [k |-> "null", n |-> 0, s |-> <<>>]
MissingV == [k |-> "missing", n |-> 0, s |-> <<>>]

\* int(x) raises on None and on a string that is no integer literal
IntRaises(v) ==
    \/ v.k = "null"
    \/ v.k = "str" /\ ~IsIntLiteral(v.s)

\* int(x): identity on int, 0/1 on bool, truncation toward zero on float,
\* parsing on str
IntOf(v) ==
    CASE v.k = "int" -> v.n
      [] v.k = "bool" -> v.n
      [] v.k = "float" -> IF v.n >= 0 THEN v.n \div 10 ELSE 0 - ((0 - v.n) \div 10)
      [] v.k = "str" -> IntOfLiteral(v.s)

(* --------------------------- the API's answers ------------------------- *)
Chars(a, b, c, d, e) == <<a, b, c, d, e>>

DatePart == Chars("2", "0", "2", "4", "-") \o Chars("0", "5", "-", "0", "1")

ClockPart == <<"1", "4", ":", "3", "0", ":", "0", "0">>

\* "2024-05-01T14:30:00"
IsoTime == DatePart \o <<"T">> \o ClockPart

\* "2024-05-01T14:30:00 UTC"
IsoZoneTime == IsoTime \o <<" ", "U", "T", "C">>

\* "2024-05-01 14:30:00"
PlainTime == DatePart \o <<" ">> \o ClockPart

\* "soonTM": holds a "T", is no timestamp
JunkTTime == <<"s", "o", "o", "n", "T", "M">>

\* "n/a": holds no "T", is no timestamp
JunkTime == <<"n", "/", "a">>

TimeStrings == {IsoTime, IsoZoneTime, PlainTime, JunkTTime, JunkTime}

\* pd.date_range(start=s, ...) parses s as a timestamp or raises ValueError
PandasParses(s) == s \in {IsoTime, IsoZoneTime, PlainTime}

Entry(ni, sp, stf, drt) ==
    [NumberInline |-> ni, SensorPercentage |-> sp, ServeTimeFrames |-> stf,
     DataReadTime |-> drt]

Reading1 == Entry(IntV(7), IntV(49), IntV(50), StrV(IsoTime))

Reading2 ==
    Entry(BoolV(TRUE), StrV(<<" ", "5", "0">>), FloatV(557), StrV(IsoZoneTime))

GoodEntries == {Reading1, Reading2}

BadNumbers == {MissingV, NullV, StrV(<<"x">>)}

BadTimes == {MissingV, NullV, StrV(PlainTime), StrV(JunkTTime), StrV(JunkTime)}

BadEntries ==
    {[Reading1 EXCEPT !.NumberInline = v] : v \in BadNumbers}
    \cup {[Reading1 EXCEPT !.SensorPercentage = v] : v \in BadNumbers}
    \cup {[Reading1 EXCEPT !.ServeTimeFrames = v] : v \in BadNumbers}
    \cup {[Reading1 EXCEPT !.DataReadTime = v] : v \in BadTimes}

BadCount(l) == Cardinality({i \in 1..Len(l) : l[i] \in BadEntries})

SensorLists ==
    UNION {{l \in [1..n -> GoodEntries \cup BadEntries] : BadCount(l) <= MaxBad}
           : n \in 0..MaxSensors}

\* the body of the response: no JSON, a JSON array, or a JSON object whose
\* SensorList is absent, null or a list of readings
Body(k, sl, list) == [k |-> k, sl |-> sl, list |-> list]

Bodies ==
    {Body("invalid", "absent", <<>>), Body("array", "absent", <<>>),
     Body("object", "absent", <<>>), Body("object", "null", <<>>)}
    \cup {Body("object", "list", l) : l \in SensorLists}

Statuses == {200, 300, 404}

\* the Content-Type header: absent, or a value given as its ";"-separated parts
NoHeader == <<"(absent)">>

ContentTypes ==
    {NoHeader, <<"application/json", "charset=utf-8">>, <<"text/html">>}

Responses == [status : Statuses, content_type : ContentTypes, body : Bodies]

NoResponse == [status |-> 0, content_type |-> NoHeader,
               body |-> Body("invalid", "absent", <<>>)]

(* ------------------------------ fetch ---------------------------------- *)
\* response.raise_for_status(): HTTPError for 4xx and 5xx
RaisesForStatus(status) == status >= 400 /\ status < 600

\* 'application/json' in content_type, for a header that is present
HasJson(content_type) ==
    \E i \in 1..Len(content_type) : content_type[i] = "application/json"

EmptyDict == Body("object", "absent", <<>>)

NoData == Body("unset", "absent", <<>>)

\* data.get('SensorList', [])
GetSensorList(d) == IF d.sl = "list" THEN d.list ELSE <<>>

\* the slice forgotten: every entry is kept
WholeList(l) == l

\* sensors_data[:3]
FirstThree(l) == SubSeq(l, 1, IF Len(l) < 3 THEN Len(l) ELSE 3)

(* ------------------------------ shape ---------------------------------- *)
\* the second and third names exchanged
sensor_name_map_swapped ==
    [i \in {0, 1, 2} |->
        CASE i = 0 -> "Jamara 1" [] i = 1 -> "Jamara 2" [] i = 2 -> "BTW Jam 1&2"]

\* sensor_name_map, keyed by the 0-based index of enumerate
sensor_name_map ==
    [i \in {0, 1, 2} |->
        CASE i = 0 -> "Jamara 1" [] i = 1 -> "BTW Jam 1&2" [] i = 2 -> "Jamara 2"]

NumericFields(sensor) ==
    <<sensor.NumberInline, sensor.SensorPercentage, sensor.ServeTimeFrames>>

\* the error the body of the loop raises for the entry at index i, "" if none
ShapeError(i, sensor) ==
    LET f == NumericFields(sensor)
        missing == {j \in 1..3 : f[j].k = "missing"}
        raising == {j \in 1..3 : IntRaises(f[j])}
        first == CHOOSE j \in missing \cup raising :
                     \A m \in missing \cup raising : j <= m
    IN  IF i \notin DOMAIN sensor_name_map THEN "KeyError:sensor_name_map"
        ELSE IF missing \cup raising # {}
             THEN IF first \in missing THEN "KeyError:field"
                  ELSE IF f[first].k = "null" THEN "TypeError:int"
                  ELSE "ValueError:int"
        ELSE IF sensor.DataReadTime.k = "missing" THEN "KeyError:field"
        ELSE ""

\* the sensor_data dictionary built for the entry at index i
ShapeOne(i, sensor) ==
    [SensorDesc |-> sensor_name_map[i],
     NumberInline |-> IntOf(sensor.NumberInline),
     SensorPercentage |-> IntOf(sensor.SensorPercentage),
     ServeTimeFrames |-> IntOf(sensor.ServeTimeFrames),
     DataReadTime |-> sensor.DataReadTime]

(* ----------------------------- present --------------------------------- *)
\* x // 10 (floor division), in tenths
FloorDiv10(x) == 10 * (x \div 10)

\* x / 10 (true division), in tenths
TrueDiv10(x) == x

\* the error create_df raises, "" if none: the start of the range must parse
DfError(sensor_data) ==
    IF sensor_data.DataReadTime.k = "str"
          /\ PandasParses(sensor_data.DataReadTime.s)
    THEN "" ELSE "ValueError:date_range"

\* create_df: 10 rows; time in minutes after DataReadTime, intermission in
\* tenths
create_df(sensor_data) ==
    [time |-> [j \in 1..10 |-> 15 * (j - 1)],
     percentage |->
        [j \in 1..10 |-> sensor_data.SensorPercentage + (((j - 1) * 3) % 30)],
     intermission |->
        [j \in 1..10 |->
            TrueDiv10(sensor_data.ServeTimeFrames) + 10 * ((j - 1) % 10)]]

\* the error the title of create_complex_graph raises, "" if none
TitleError(data_read_time) ==
    IF Len(Split(data_read_time, "T")) < 2 THEN "IndexError:split" ELSE ""

\* the three parts of the title of create_complex_graph
Title(sensor_desc, data_read_time) ==
    [desc |-> sensor_desc,
     date |-> Split(data_read_time, "T")[1],
     time |-> Split(data_read_time, "T")[2]]

create_complex_graph(dataframe, sensor_desc, data_read_time) ==
    [x |-> dataframe.time,
     percentage |-> dataframe.percentage,
     intermission |-> dataframe.intermission,
     title |-> Title(sensor_desc, data_read_time)]

emotion_label(sensor_data) ==
    IF sensor_data.SensorPercentage < 50 THEN "Calm" ELSE "Busy"

\* the colour thresholded at <= 50
emotion_color_inclusive(sensor_data) ==
    IF sensor_data.SensorPercentage <= 50 THEN "yellow" ELSE "red"

emotion_color(sensor_data) ==
    IF sensor_data.SensorPercentage < 50 THEN "yellow" ELSE "red"

\* the error create_section raises, "" if none
SectionError(sensor_data) ==
    IF DfError(sensor_data) # "" THEN DfError(sensor_data)
    ELSE TitleError(sensor_data.DataReadTime.s)

create_section(sensor_data) ==
    [header |-> sensor_data.SensorDesc,
     people |-> sensor_data.NumberInline,
     wait |-> TrueDiv10(sensor_data.ServeTimeFrames),
     label |-> emotion_label(sensor_data),
     color |-> emotion_color(sensor_data),
     graph |-> create_complex_graph(create_df(sensor_data),
                                    sensor_data.SensorDesc,
                                    sensor_data.DataReadTime.s),
     alerts |-> <<"warning", "danger", "info">>]

\* dbc.Container([header row, html.Hr(), *sections])
Page(cards) ==
    [assigned |-> TRUE, header |-> "POC: Real-time Crowd Intelligence",
     cards |-> cards]

NoPage == [assigned |-> FALSE, header |-> "", cards |-> <<>>]

\* int(os.environ.get('PORT', 8050)); PORT is unset or an integer
PortEnv == {MissingV, StrV(<<"5", "0", "0", "0">>)}

PortOf(env) == IF env.k = "missing" THEN 8050 ELSE IntOf(env)

(* ------------------------------ state ---------------------------------- *)
NoFailure == [stage |-> "", error |-> ""]

Failed(stage, error) == [stage |-> stage, error |-> error]

\* the content type never looked at: any body that parses is taken
FetchBlockAnyType(r, decodeIsRequestException) ==
    IF RaisesForStatus(r.status) THEN [data |-> EmptyDict, error |-> ""]
    ELSE IF r.body.k = "invalid" THEN [data |-> EmptyDict, error |-> ""]
    ELSE [data |-> r.body, error |-> ""]

\* the result of lines 17-27 for a response r: data, or the error that
\* leaves the try block.  decodeIsRequestException: whether the installed
\* requests raises its JSONDecodeError as a RequestException (2.27 and later)
\* or a plain ValueError
FetchBlock(r, decodeIsRequestException) ==
    IF RaisesForStatus(r.status) THEN [data |-> EmptyDict, error |-> ""]
    ELSE IF r.content_type = NoHeader
         THEN [data |-> NoData, error |-> "TypeError:content_type"]
    ELSE IF ~HasJson(r.content_type) THEN [data |-> EmptyDict, error |-> ""]
    ELSE IF r.body.k = "invalid"
         THEN IF decodeIsRequestException
              THEN [data |-> EmptyDict, error |-> ""]
              ELSE [data |-> NoData, error |-> "ValueError:json"]
    ELSE [data |-> r.body, error |-> ""]

Init ==
    /\ pc = "start"
    /\ getCount = 0
    /\ response = NoResponse
    /\ data = NoData
    /\ sensors_data = <<>>
    /\ selected_sensors = <<>>
    /\ idx = 0
    /\ processed_data = <<>>
    /\ sections = <<>>
    /\ layout = NoPage
    /\ port = 0
    /\ views = 0
    /\ lastPage = NoPage
    /\ failure = NoFailure

\* line 16: requests.get(api_url) is called and blocks
IssueGet ==
    /\ pc = "start"
    /\ pc' = "get"
    /\ getCount' = getCount + 1
    /\ UNCHANGED <<response, data, sensors_data, selected_sensors, idx,
                   processed_data, sections, layout, port, views, lastPage,
                   failure>>

\* lines 16, 25-27: the GET raises a RequestException
GetRaises ==
    /\ pc = "get"
    /\ data' = EmptyDict
    /\ pc' = "extract"
    /\ UNCHANGED <<getCount, response, sensors_data, selected_sensors, idx,
                   processed_data, sections, layout, port, views, lastPage,
                   failure>>

\* lines 16-27: the GET returns a response
GetReturns ==
    /\ pc = "get"
    /\ \E r \in Responses, d \in BOOLEAN :
          LET res == FetchBlock(r, d)
          IN  /\ response' = r
              /\ data' = res.data
              /\ IF res.error = ""
                 THEN pc' = "extract" /\ failure' = failure
                 ELSE pc' = "failed" /\ failure' = Failed("fetch", res.error)
    /\ UNCHANGED <<getCount, sensors_data, selected_sensors, idx,
                   processed_data, sections, layout, port, views, lastPage>>

\* lines 30-31: data.get('SensorList', []) and the slice [:3]
Extract ==
    /\ pc = "extract"
    /\ IF data.k # "object"
       THEN /\ pc' = "failed"
            /\ failure' = Failed("extract", "AttributeError:get")
            /\ UNCHANGED <<sensors_data, selected_sensors>>
       ELSE IF data.sl = "null"
       THEN /\ pc' = "failed"
            /\ failure' = Failed("shape", "TypeError:slice")
            /\ UNCHANGED <<sensors_data, selected_sensors>>
       ELSE /\ sensors_data' = GetSensorList(data)
            /\ selected_sensors' = FirstThree(GetSensorList(data))
            /\ pc' = "shape"
            /\ failure' = failure
    /\ UNCHANGED <<getCount, response, data, idx, processed_data, sections,
                   layout, port, views, lastPage>>

\* lines 41-50: one pass of the loop, for the entry at index idx
ShapeStep ==
    /\ pc = "shape"
    /\ idx < Len(selected_sensors)
    /\ LET sensor == selected_sensors[idx + 1]
           err == ShapeError(idx, sensor)
       IN  IF err # ""
           THEN /\ pc' = "failed"
                /\ failure' = Failed("shape", err)
                /\ UNCHANGED <<idx, processed_data>>
           ELSE /\ processed_data' = Append(processed_data, ShapeOne(idx, sensor))
                /\ idx' = idx + 1
                /\ UNCHANGED <<pc, failure>>
    /\ UNCHANGED <<getCount, response, data, sensors_data, selected_sensors,
                   sections, layout, port, views, lastPage>>

\* line 41: the loop is exhausted
ShapeDone ==
    /\ pc = "shape"
    /\ idx = Len(selected_sensors)
    /\ pc' = "build"
    /\ UNCHANGED <<getCount, response, data, sensors_data, selected_sensors,
                   idx, processed_data, sections, layout, port, views,
                   lastPage, failure>>

\* a sensor whose section cannot be built is dropped and the rest go on
BuildSectionSkipping ==
    /\ pc = "build"
    /\ Len(sections) < Len(processed_data)
    /\ LET n == Len(sections) + 1
           sensor_data == processed_data[n]
       IN  IF SectionError(sensor_data) # ""
           THEN /\ processed_data' = SubSeq(processed_data, 1, n - 1)
                       \o SubSeq(processed_data, n + 1, Len(processed_data))
                /\ UNCHANGED sections
           ELSE /\ sections' = Append(sections, create_section(sensor_data))
                /\ UNCHANGED processed_data
    /\ UNCHANGED <<pc, getCount, response, data, sensors_data,
                   selected_sensors, idx, layout, port, views, lastPage,
                   failure>>

\* line 146: create_section for the next sensor of processed_data
BuildSection ==
    /\ pc = "build"
    /\ Len(sections) < Len(processed_data)
    /\ LET sensor_data == processed_data[Len(sections) + 1]
           err == SectionError(sensor_data)
       IN  IF err # ""
           THEN /\ pc' = "failed"
                /\ failure' = Failed("build", err)
                /\ UNCHANGED sections
           ELSE /\ sections' = Append(sections, create_section(sensor_data))
                /\ UNCHANGED <<pc, failure>>
    /\ UNCHANGED <<getCount, response, data, sensors_data, selected_sensors,
                   idx, processed_data, layout, port, views, lastPage>>

\* lines 149-157: app.layout is assigned
AssignLayout ==
    /\ pc = "build"
    /\ Len(sections) = Len(processed_data)
    /\ layout' = Page(sections)
    /\ pc' = "main"
    /\ UNCHANGED <<getCount, response, data, sensors_data, selected_sensors,
                   idx, processed_data, sections, port, views, lastPage,
                   failure>>

\* lines 161-163: the port is read and the server starts
RunServer ==
    /\ pc = "main"
    /\ \E env \in PortEnv : port' = PortOf(env)
    /\ pc' = "serving"
    /\ UNCHANGED <<getCount, response, data, sensors_data, selected_sensors,
                   idx, processed_data, sections, layout, views, lastPage,
                   failure>>

\* a page view that fetches again before the layout is sent
PageViewRefetching ==
    /\ pc = "serving"
    /\ views < MaxViews
    /\ views' = views + 1
    /\ getCount' = getCount + 1
    /\ lastPage' = layout
    /\ UNCHANGED <<pc, response, data, sensors_data, selected_sensors, idx,
                   processed_data, sections, layout, port, failure>>

\* a page view while serving: the layout is sent as it is
PageView ==
    /\ pc = "serving"
    /\ views < MaxViews
    /\ views' = views + 1
    /\ lastPage' = layout
    /\ UNCHANGED <<pc, getCount, response, data, sensors_data,
                   selected_sensors, idx, processed_data, sections, layout,
                   port, failure>>

Next ==
    \/ IssueGet
    \/ GetRaises
    \/ GetReturns
    \/ Extract
    \/ ShapeStep
    \/ ShapeDone
    \/ BuildSection
    \/ AssignLayout
    \/ RunServer
    \/ PageView

Spec == Init /\ [][Next]_vars

(* ------------------- the presenter on a range of readings -------------- *)
\* the state after shaping a one-entry SensorList whose reading has the
\* percentage sp, the serve time stf and the timestamp t
AfterShaping(sp, stf, t) ==
    LET raw == Entry(IntV(7), IntV(sp), IntV(stf), StrV(t))
        body == Body("object", "list", <<raw>>)
    IN  /\ pc = "build"
        /\ getCount = 1
        /\ response = [status |-> 200,
                       content_type |-> <<"application/json", "charset=utf-8">>,
                       body |-> body]
        /\ data = body
        /\ sensors_data = <<raw>>
        /\ selected_sensors = <<raw>>
        /\ idx = 1
        /\ processed_data = <<ShapeOne(0, raw)>>
        /\ sections = <<>>
        /\ layout = NoPage
        /\ port = 0
        /\ views = 0
        /\ lastPage = NoPage
        /\ failure = NoFailure

InitSection ==
    \E sp \in (0 - PctSlack)..(100 + PctSlack), stf \in 0..MaxServe,
       t \in TimeStrings : AfterShaping(sp, stf, t)

NextSection ==
    \/ BuildSection
    \/ AssignLayout
    \/ RunServer
    \/ PageView

SpecSection == InitSection /\ [][NextSection]_vars

(* ------------------------------ claims --------------------------------- *)
Min(a, b) == IF a < b THEN a ELSE b

\* the shaping loop has run to its end
Shaped == pc \in {"build", "main", "serving"} \/ failure.stage = "build"

\* the name the documentation gives to the sensor at 0-based position k
PositionName(k) ==
    IF k = 0 THEN "Jamara 1" ELSE IF k = 1 THEN "BTW Jam 1&2" ELSE "Jamara 2"

\* the integers the two well-formed readings carry
ReadingNumbers(e) == IF e = Reading1 THEN <<7, 49, 50>> ELSE <<1, 50, 55>>

\* C1: a SensorList of N well-formed entries is shaped into exactly
\* min(N, 3) DisplaySensors, the k-th built from raw entry k and named by its
\* position alone; entries at index 3 and beyond do not appear.
C1_ShaperPositional ==
    (/\ Shaped
     /\ data.sl = "list"
     /\ \A i \in 1..Len(data.list) : data.list[i] \in GoodEntries)
    => /\ Len(processed_data) = Min(Len(data.list), 3)
       /\ \A k \in 1..Len(processed_data) :
             processed_data[k] =
                [SensorDesc |-> PositionName(k - 1),
                 NumberInline |-> ReadingNumbers(data.list[k])[1],
                 SensorPercentage |-> ReadingNumbers(data.list[k])[2],
                 ServeTimeFrames |-> ReadingNumbers(data.list[k])[3],
                 DataReadTime |-> data.list[k].DataReadTime]

\* four well-formed readings were served as three cards
C1_Witness ==
    /\ pc = "serving"
    /\ data.sl = "list"
    /\ data.list = <<Reading1, Reading2, Reading2, Reading1>>
    /\ Len(processed_data) = 3
    /\ processed_data[3].SensorDesc = "Jamara 2"
    /\ processed_data[3].SensorPercentage = 50

\* C10: in the shaping loop the index looked up in sensor_name_map is 0, 1 or
\* 2 whatever the length of the raw list, the lookup never fails, and there
\* are never more than 3 DisplaySensors.
C10_IndexInNameMap ==
    /\ (pc = "shape" /\ idx < Len(selected_sensors)) => idx \in {0, 1, 2}
    /\ failure.error # "KeyError:sensor_name_map"
    /\ Len(processed_data) <= 3

\* the loop is at its last pass for a raw list longer than the name map
C10_Witness ==
    /\ pc = "shape"
    /\ idx = 2
    /\ idx < Len(selected_sensors)
    /\ Len(sensors_data) > 3

\* the GET is over: it raised, or its response was handled
GetOver == pc \notin {"start", "get"}

\* the GET ended in a transport exception: no response was ever bound
TransportFailed == GetOver /\ response = NoResponse

Answered == GetOver /\ response # NoResponse

\* the response has a Content-Type and it does not name JSON
NotJsonType ==
    /\ Answered
    /\ response.content_type # NoHeader
    /\ \A i \in 1..Len(response.content_type) :
          response.content_type[i] # "application/json"

\* a JSON response (its Content-Type names JSON, its body is an object)
\* whose SensorList is absent or empty
JsonWithoutSensors ==
    /\ Answered
    /\ \E i \in 1..Len(response.content_type) :
          response.content_type[i] = "application/json"
    /\ response.body.k = "object"
    /\ \/ response.body.sl = "absent"
       \/ response.body.sl = "list" /\ response.body.list = <<>>

\* no DisplaySensor exists and every page that is sent has the header and no
\* card
NoCards ==
    /\ processed_data = <<>>
    /\ sections = <<>>
    /\ layout.assigned => layout.header # "" /\ layout.cards = <<>>
    /\ views > 0 =>
          lastPage.assigned /\ lastPage.header # "" /\ lastPage.cards = <<>>

NonNumericString(s) ==
    \E i \in 1..Len(s) : ~IsDigit(s[i]) /\ s[i] \notin {" ", "-", "+", "."}

\* the defects of a raw entry that C3 names
MissingOrNonNumeric(v) ==
    \/ v.k \in {"missing", "null"}
    \/ v.k = "str" /\ NonNumericString(v.s)

LacksT(v) == v.k = "str" /\ \A i \in 1..Len(v.s) : v.s[i] # "T"

C3_Defective(e) ==
    \/ MissingOrNonNumeric(e.NumberInline)
    \/ MissingOrNonNumeric(e.SensorPercentage)
    \/ MissingOrNonNumeric(e.ServeTimeFrames)
    \/ LacksT(e.DataReadTime)

C3_DefectAt(p) ==
    /\ data.sl = "list"
    /\ p <= Len(data.list)
    /\ C3_Defective(data.list[p])

C4_SyntheticSeries ==
    \A k \in 1..Len(sections) :
        LET g == sections[k].graph
            base == processed_data[k].SensorPercentage
            frames == processed_data[k].ServeTimeFrames
        IN  /\ Len(g.x) = 10 /\ Len(g.percentage) = 10 /\ Len(g.intermission) = 10
            /\ \A i \in 0..9 :
                  /\ g.x[i + 1] = 15 * i
                  /\ g.percentage[i + 1] = base + ((3 * i) % 30)
                  /\ g.intermission[i + 1] = frames + 10 * i
            /\ base = 40 =>
                  g.percentage = <<40, 43, 46, 49, 52, 55, 58, 61, 64, 67>>
            /\ frames = 50 =>
                  g.intermission = <<50, 60, 70, 80, 90, 100, 110, 120, 130, 140>>

\* a series was built for a serve time that 10 does not divide
C4_Witness ==
    /\ Len(sections) = 1
    /\ processed_data[1].ServeTimeFrames = 15
    /\ processed_data[1].SensorPercentage = 40
    /\ sections[1].graph.intermission[10] = 105

\* C5: a card is labelled "Calm" and coloured yellow exactly when
\* SensorPercentage < 50 and labelled "Busy" and coloured red exactly when
\* SensorPercentage >= 50, also below 0 and above 100; label and colour never
\* disagree.
C5_EmotionThreshold ==
    \A k \in 1..Len(sections) :
        LET p == processed_data[k].SensorPercentage
            c == sections[k]
        IN  /\ (c.label = "Calm" /\ c.color = "yellow") <=> p < 50
            /\ (c.label = "Busy" /\ c.color = "red") <=> p >= 50
            /\ p = 49 => c.label = "Calm" /\ c.color = "yellow"
            /\ p = 50 => c.label = "Busy" /\ c.color = "red"
            /\ ~(c.label = "Calm" /\ c.color = "red")
            /\ ~(c.label = "Busy" /\ c.color = "yellow")

\* a card was built for a sensor at exactly 50 percent
C5_Witness ==
    /\ Len(sections) = 1
    /\ processed_data[1].SensorPercentage = 50
    /\ sections[1].label = "Busy"
    /\ sections[1].color = "red"

\* the part of s before its first "T" and the part after it
BeforeT(s) == SubSeq(s, 1, FindFrom(s, "T", 1) - 1)

AfterT(s) == SubSeq(s, FindFrom(s, "T", 1) + 1, Len(s))

\* C6: for a DataReadTime that contains "T" the title shows as Date the part
\* before "T" and as Time the part after "T"; for a DataReadTime without "T"
\* no chart is built and the start-up aborts.
C6_TitleDateAndTime ==
    /\ \A k \in 1..Len(sections) :
          LET s == processed_data[k].DataReadTime.s
          IN  /\ FindFrom(s, "T", 1) # 0
              /\ sections[k].graph.title.date = BeforeT(s)
              /\ sections[k].graph.title.time = AfterT(s)
    /\ \A k \in 1..Len(processed_data) :
          LacksT(processed_data[k].DataReadTime) =>
              /\ Len(sections) < k
              /\ pc \notin {"main", "serving"}

PcOrder == <<"start", "get", "extract", "shape", "build", "main", "serving">>

Rank(p) == CHOOSE i \in 1..Len(PcOrder) : PcOrder[i] = p

\* C7: the pipeline runs once in the order fetch, shape, build, assign the
\* layout, serve; exactly one GET is issued; no step is entered again; and
\* while serving, page views leave the fetched data, the DisplaySensors and
\* the layout as they are, send that layout, and issue no GET.
C7_RunsOnce ==
    /\ [](getCount <= 1 /\ (pc # "start" => getCount = 1))
    /\ [][/\ pc' # pc => pc # "failed" /\ (pc' = "failed" \/ Rank(pc') = Rank(pc) + 1)
          /\ getCount' # getCount => pc = "start"
          /\ processed_data' # processed_data => pc = "shape"
          /\ sections' # sections => pc = "build"
          /\ layout' # layout => pc = "build" /\ pc' = "main"
          /\ pc = "serving" =>
                /\ UNCHANGED <<response, data, sensors_data, selected_sensors,
                               processed_data, sections, layout, getCount>>
                /\ lastPage' = layout]_vars

\* two page views were answered from the snapshot of the one GET
C7_Witness ==
    /\ pc = "serving"
    /\ views = 2
    /\ getCount = 1
    /\ lastPage = layout
    /\ Len(layout.cards) = 3

\* C8, its statement on the failed outcome: 'failed to start' is reached only
\* through a fatal shaping or formatting error.
C8_FailsOnlyInShaping ==
    pc = "failed" => failure.stage \in {"shape", "build"}

\* C9: no outcome of the GET aborts the start-up in the fetch stage: the
\* stage always ends with a sensor list and control reaches the shaper.
C9_FetchNeverAborts ==
    /\ failure.stage \notin {"fetch", "extract"}
    /\ (Answered /\ pc # "extract") => pc \in {"shape", "build", "main", "serving"}
                                         \/ failure.stage \in {"shape", "build"}

====
